---- MODULE Spec2Model ----
(***************************************************************************)
(* cinder::midi::Output (src/src/MidiOut.cpp): the life cycle of a MIDI    *)
(* output connection (openPort / openVirtualPort / closePort / ~Output)    *)
(* and the encoding of channel-voice messages (sendNoteOn ... ), over an   *)
(* RtMidiOut transport provider.                                           *)
(*                                                                         *)
(* Every operation of Output is one action: the calls are synchronous and  *)
(* the object is used from one thread.  The provider is driven through the *)
(* sequence of calls an operation makes on its handle, applied in order.   *)
(***************************************************************************)
EXTENDS Integers, Sequences, FiniteSets, TLC

(***************************************************************************)
(* Bounds of the model.                                                    *)
(***************************************************************************)
\* Number of real output ports the provider lists (indices 0..NumPorts-1).
NumPorts == 2

\* The Output objects of the process.
Outputs == {"a", "b"}

\* The object the caller drives; the other one is constructed and left alone.
Main == {"a"}

\* Names callers give to virtual ports.
VirtualNames == {"MyApp", "Synth"}

\* Port numbers callers pass to openPort: every listed port and one past the end.
PortArgs == 0..NumPorts

(***************************************************************************)
(* The state.                                                              *)
(***************************************************************************)
VARIABLES
    mPortNumber,      \* [Outputs -> Int]      Output::mPortNumber
    mPortName,        \* [Outputs -> STRING]   Output::mPortName
    mIsVirtual,       \* [Outputs -> BOOLEAN]  Output::mIsVirtual
    mBytes,           \* [Outputs -> Seq(0..255)]  Output::mBytes
    sVerboseLogging,  \* BOOLEAN               Output::sVerboseLogging (static)
    rt,               \* [Outputs -> set of ports the provider holds open for the handle]
    alive,            \* [Outputs -> BOOLEAN]  the object has not been destroyed
    aborted,          \* "" or the function whose assert() failed: the process is gone
    last,             \* the operation that ran last: its caller-visible record
    wire,             \* the messages the provider was handed, while they are recorded
    race              \* the threads that run sendMessage statement by statement

vars == <<mPortNumber, mPortName, mIsVirtual, mBytes, sVerboseLogging, rt, alive,
          aborted, last, wire, race>>

(***************************************************************************)
(* The transport provider (RtMidiOut): one handle per Output.              *)
(* openPort and openVirtualPort either succeed or throw RtError; closePort *)
(* and sendMessage return normally.  The handle's state is the set of      *)
(* ports it holds open, so that an open without a close before it shows.   *)
(***************************************************************************)
\* Names of the real ports, by index.
RtPortNames == <<"IAC Bus 1", "USB Synth", "Network Session", "Loopback">>

\* RtMidiOut::getPortCount
RtGetPortCount == NumPorts

\* RtMidiOut::getPortName: "" when the number is invalid.
RtGetPortName(portNumber) ==
    IF portNumber \in 0..(RtGetPortCount - 1) /\ portNumber + 1 <= Len(RtPortNames)
    THEN RtPortNames[portNumber + 1]
    ELSE ""

\* A port the provider holds open for a handle.
RtRealPort(portNumber) ==
    [kind |-> "real", port |-> portNumber, name |-> RtGetPortName(portNumber)]

RtVirtualPort(portName) ==
    [kind |-> "virtual", port |-> -1, name |-> portName]

\* A call on the provider handle, as the operation makes it.
RtCall(fn, port, name, bytes) ==
    [fn |-> fn, port |-> port, name |-> name, bytes |-> bytes, label |-> <<>>]

\* The provider can accept openPort only for a port it lists.
RtCanOpen(portNumber) == portNumber \in 0..(RtGetPortCount - 1)

\* What an accepted call does to the ports held open for the handle.
RtApply(h, call) ==
    CASE call.fn = "closePort"       -> {}
      [] call.fn = "openPort"        -> h \cup {RtRealPort(call.port)}
      [] call.fn = "openVirtualPort" -> h \cup {RtVirtualPort(call.name)}
      [] OTHER                       -> h

\* RtMidiOut::sendMessage: the bytes of every sendMessage call go out for the
\* handle, in the order of the calls; w.on says whether they are recorded.
RECURSIVE RtDeliver(_, _, _)
RtDeliver(w, o, calls) ==
    IF calls = <<>> \/ ~w.on THEN w
    ELSE RtDeliver(IF Head(calls).fn = "sendMessage"
                   THEN [w EXCEPT !.msgs[o] = Append(@, Head(calls).bytes)]
                   ELSE w,
                   o, Tail(calls))

RECURSIVE RtApplyAll(_, _)
RtApplyAll(h, calls) ==
    IF calls = <<>> THEN h
    ELSE RtApplyAll(RtApply(h, Head(calls)), Tail(calls))

(***************************************************************************)
(* Output: the fields of one object, as a record.                          *)
(***************************************************************************)
Fields(o) ==
    [port |-> mPortNumber[o], name |-> mPortName[o], virt |-> mIsVirtual[o]]

\* Output::Output: the member initialisers.
ctorFields == [port |-> -1, name |-> "", virt |-> FALSE]

\* Output::Output: mBytes(3), three value-initialised bytes.
ctorBytes == <<0, 0, 0>>

\* Output::mName, the client name given to the constructor.
mName == [o \in Outputs |-> IF o = "a" THEN "Cinder" ELSE ""]

\* Output::isOpen
isOpenF(f) == f.port > -1 \/ f.virt

isOpen(o) == isOpenF(Fields(o))

\* Output::isVirtual
isVirtual(o) == mIsVirtual[o]

\* Output::getPort
getPort(o) == mPortNumber[o]

\* Output::getName
getName(o) == mPortName[o]

\* A line written to std::cout.
Event(ev, port, name) == [ev |-> ev, port |-> port, name |-> name]

(***************************************************************************)
(* Output::closePort, in its parts.                                        *)
(***************************************************************************)
\* A closePort that insists on an open connection.
closePortAssertHolds_RequiresOpen(f, verbose) ==
    f.port > -1 \/ f.virt

\* The assert of the virtual branch: reached only under sVerboseLogging.
closePortAssertHolds(f, verbose) ==
    (verbose /\ f.virt) => f.port = -1

\* A closePort that writes its lines whatever the switch says.
closePortLog_IgnoresSwitch(f, verbose) ==
    IF f.virt THEN <<Event("closed virtual port", -1, f.name)>>
    ELSE IF f.port > -1 THEN <<Event("closed port", f.port, f.name)>>
    ELSE <<>>

\* The verbose lines of closePort.
closePortLog(f, verbose) ==
    IF verbose
    THEN IF f.virt THEN <<Event("closed virtual port", -1, f.name)>>
         ELSE IF f.port > -1 THEN <<Event("closed port", f.port, f.name)>>
         ELSE <<>>
    ELSE <<>>

\* A closePort that resets the fields and leaves the provider's port open.
closePortCalls_NoProviderClose == <<>>

\* The provider calls closePort makes.
closePortCalls == <<RtCall("closePort", -1, "", <<>>)>>

\* A closePort that forgets mPortNumber = -1.
closePortFields_KeepsPortNumber(f) == [port |-> f.port, name |-> "", virt |-> FALSE]

\* A closePort that resets nothing.
closePortFields_KeepsAll(f) == f

\* The fields as closePort leaves them.
closePortFields(f) == [port |-> -1, name |-> "", virt |-> FALSE]

(***************************************************************************)
(* Output::openPort and Output::openVirtualPort, in their parts.           *)
(***************************************************************************)
\* The label openPort gives the provider: mName << "Output " << portNumber.
openPortLabel(o, portNumber) == <<mName[o], "Output ", portNumber>>

\* An openPort that closes the old port only after it opened the new one.
openPortCalls_OpenBeforeClose(o, portNumber) ==
    <<RtCall("openPort", portNumber, "", <<>>)>> \o closePortCalls

\* The provider calls of openPort: closePort() first, then RtMidiOut::openPort.
openPortCalls(o, portNumber) ==
    closePortCalls
        \o <<[RtCall("openPort", portNumber, "", <<>>)
                 EXCEPT !.label = openPortLabel(o, portNumber)]>>

\* An openPort that records the number and not the name.
openPortFields_NoName(f, portNumber) == [f EXCEPT !.port = portNumber]

\* The fields after the provider accepted openPort; f is what closePort left.
openPortFields(f, portNumber) ==
    [f EXCEPT !.port = portNumber, !.name = RtGetPortName(portNumber)]

\* The lines openPort writes after closePort's.
openPortLog(portNumber, accepted, verbose) ==
    IF ~accepted THEN <<Event("ERROR couldn't open port", portNumber, "")>>
    ELSE IF verbose
         THEN <<Event("opened port", portNumber, RtGetPortName(portNumber))>>
         ELSE <<>>

\* An openVirtualPort that does not close what is open.
openVirtualPortCalls_NoClose(portName) ==
    <<RtCall("openVirtualPort", -1, portName, <<>>)>>

\* The provider calls of openVirtualPort.
openVirtualPortCalls(portName) ==
    closePortCalls \o <<RtCall("openVirtualPort", -1, portName, <<>>)>>

\* An openVirtualPort that forgets mIsVirtual = true.
openVirtualPortFields_NoFlag(f, portName) == [f EXCEPT !.name = portName]

\* The fields after the provider accepted openVirtualPort; f is what closePort left.
openVirtualPortFields(f, portName) ==
    [f EXCEPT !.name = portName, !.virt = TRUE]

\* The lines openVirtualPort writes after closePort's.
openVirtualPortLog(portName, accepted, verbose) ==
    IF ~accepted THEN <<Event("ERROR couldn't open virtual port", -1, portName)>>
    ELSE IF verbose THEN <<Event("opened virtual port", -1, portName)>>
         ELSE <<>>

(***************************************************************************)
(* The record of the operation that ran last.                              *)
(***************************************************************************)
\* Whether the operation before this one was an open of the same object that
\* the provider rejected, and if so whether a port was open when it was called.
FailedOpen(o) ==
    IF last.self = o /\ last.op \in {"openPort", "openVirtualPort"} /\ ~last.ret
    THEN IF last.pre.port > -1 \/ last.pre.virt THEN "after failed reopen"
         ELSE "after failed open"
    ELSE "no"

\* pre: the fields and the provider's ports before the operation.
OpRecord(o, op, port, name, ch, d1, d2, ret, out, calls) ==
    [self |-> o, op |-> op, port |-> port, name |-> name,
     ch |-> ch, d1 |-> d1, d2 |-> d2,
     ret |-> ret, out |-> out, calls |-> calls,
     pre |-> Fields(o), preRt |-> rt[o], preLen |-> Len(mBytes[o]),
     retry |-> FailedOpen(o)]

\* The calls the provider accepted: a rejected open throws, and is the last call made.
Accepted(calls, accepted) ==
    IF accepted THEN calls ELSE SubSeq(calls, 1, Len(calls) - 1)

SetFields(o, f) ==
    /\ mPortNumber' = [mPortNumber EXCEPT ![o] = f.port]
    /\ mPortName' = [mPortName EXCEPT ![o] = f.name]
    /\ mIsVirtual' = [mIsVirtual EXCEPT ![o] = f.virt]

\* A failed assert() ends the process.
Abort(o, op, where) ==
    /\ aborted' = where
    /\ last' = OpRecord(o, op, -1, "", 0, 0, 0, FALSE, <<>>, <<>>)
    /\ UNCHANGED <<mPortNumber, mPortName, mIsVirtual, mBytes, sVerboseLogging, rt, alive,
                   wire, race>>

Callable(o) == alive[o] /\ aborted = ""

(***************************************************************************)
(* The operations.                                                         *)
(***************************************************************************)
\* The threads of the caller, and what each holds between the statements of
\* sendMessage: where it is, and the arguments of its call.
Threads == {"t1", "t2"}

ThreadIdle == [pc |-> "idle", op |-> "", n |-> 0, status |-> 0, b1 |-> 0, b2 |-> 0]

\* calls: the message of every send call begun; begun: how many there were;
\* overlapped: some statement of a call ran while another call was under way.
RaceIdle ==
    [thr |-> [t \in Threads |-> ThreadIdle], overlapped |-> FALSE,
     calls |-> {}, begun |-> 0]

WireOff == [on |-> FALSE, msgs |-> [o \in Outputs |-> <<>>]]

WireOn == [on |-> TRUE, msgs |-> [o \in Outputs |-> <<>>]]

\* The objects after construction, no thread in a call.
InitObjects ==
    /\ race = RaceIdle
    /\ mPortNumber = [o \in Outputs |-> ctorFields.port]
    /\ mPortName = [o \in Outputs |-> ctorFields.name]
    /\ mIsVirtual = [o \in Outputs |-> ctorFields.virt]
    /\ mBytes = [o \in Outputs |-> ctorBytes]
    /\ sVerboseLogging = FALSE
    /\ rt = [o \in Outputs |-> {}]
    /\ alive = [o \in Outputs |-> TRUE]
    /\ aborted = ""
    /\ last = [self |-> "a", op |-> "Output", port |-> -1, name |-> "",
               ch |-> 0, d1 |-> 0, d2 |-> 0,
               ret |-> TRUE, out |-> <<>>, calls |-> <<>>,
               pre |-> ctorFields, preRt |-> {}, preLen |-> 3,
               retry |-> "no"]

Init == wire = WireOff /\ InitObjects

\* The same, with the provider's output recorded.
InitSend == wire = WireOn /\ InitObjects

\* bool Output::openPort(unsigned int portNumber)
openPort(o, portNumber, accepted) ==
    /\ Callable(o)
    /\ accepted => RtCanOpen(portNumber)
    /\ IF ~closePortAssertHolds(Fields(o), sVerboseLogging)
       THEN Abort(o, "openPort", "closePort")
       ELSE LET closed == closePortFields(Fields(o))
                calls == openPortCalls(o, portNumber)
                out == closePortLog(Fields(o), sVerboseLogging)
                         \o openPortLog(portNumber, accepted, sVerboseLogging)
            IN /\ SetFields(o, IF accepted THEN openPortFields(closed, portNumber)
                                           ELSE closed)
               /\ rt' = [rt EXCEPT ![o] = RtApplyAll(@, Accepted(calls, accepted))]
               /\ last' = OpRecord(o, "openPort", portNumber, "", 0, 0, 0,
                                   accepted, out, calls)
               /\ UNCHANGED <<mBytes, sVerboseLogging, alive, aborted, wire, race>>

\* bool Output::openVirtualPort(std::string const& portName)
openVirtualPort(o, portName, accepted) ==
    /\ Callable(o)
    /\ IF ~closePortAssertHolds(Fields(o), sVerboseLogging)
       THEN Abort(o, "openVirtualPort", "closePort")
       ELSE LET closed == closePortFields(Fields(o))
                calls == openVirtualPortCalls(portName)
                out == closePortLog(Fields(o), sVerboseLogging)
                         \o openVirtualPortLog(portName, accepted, sVerboseLogging)
            IN /\ SetFields(o, IF accepted THEN openVirtualPortFields(closed, portName)
                                           ELSE closed)
               /\ rt' = [rt EXCEPT ![o] = RtApplyAll(@, Accepted(calls, accepted))]
               /\ last' = OpRecord(o, "openVirtualPort", -1, portName, 0, 0, 0,
                                   accepted, out, calls)
               /\ UNCHANGED <<mBytes, sVerboseLogging, alive, aborted, wire, race>>

\* void Output::closePort()
closePort(o) ==
    /\ Callable(o)
    /\ IF ~closePortAssertHolds(Fields(o), sVerboseLogging)
       THEN Abort(o, "closePort", "closePort")
       ELSE /\ SetFields(o, closePortFields(Fields(o)))
            /\ rt' = [rt EXCEPT ![o] = RtApplyAll(@, closePortCalls)]
            /\ last' = OpRecord(o, "closePort", -1, "", 0, 0, 0, TRUE,
                                closePortLog(Fields(o), sVerboseLogging), closePortCalls)
            /\ UNCHANGED <<mBytes, sVerboseLogging, alive, aborted, wire, race>>

\* A destructor that does not close.
dtorCalls_Empty == <<>>

\* The provider calls of the destructor: closePort().
dtorCalls == closePortCalls

\* Output::~Output
dtorOutput(o) ==
    /\ Callable(o)
    /\ IF ~closePortAssertHolds(Fields(o), sVerboseLogging)
       THEN Abort(o, "~Output", "closePort")
       ELSE /\ SetFields(o, closePortFields(Fields(o)))
            /\ rt' = [rt EXCEPT ![o] = RtApplyAll(@, dtorCalls)]
            /\ alive' = [alive EXCEPT ![o] = FALSE]
            /\ last' = OpRecord(o, "~Output", -1, "", 0, 0, 0, TRUE,
                                closePortLog(Fields(o), sVerboseLogging), dtorCalls)
            /\ UNCHANGED <<mBytes, sVerboseLogging, aborted, wire, race>>

\* Output::setVerboseLogging(bool): the switch is static, no object is needed.
setVerboseLogging(b) ==
    /\ aborted = ""
    /\ sVerboseLogging' = b
    /\ last' = [self |-> "a", op |-> "setVerboseLogging", port |-> -1, name |-> "",
                ch |-> 0, d1 |-> 0, d2 |-> 0,
                ret |-> TRUE, out |-> <<>>, calls |-> <<>>,
                pre |-> ctorFields, preRt |-> {}, preLen |-> 3,
                retry |-> "no"]
    /\ UNCHANGED <<mPortNumber, mPortName, mIsVirtual, mBytes, rt, alive, aborted,
                   wire, race>>

(***************************************************************************)
(* Integer conversions of the send path.                                   *)
(***************************************************************************)
\* A conversion that keeps the int as it is.
ToByte_Unchanged(x) == x

\* int -> unsigned char: the value modulo 2^8.
ToByte(x) == x % 256

\* a & b on two's complement integers, bit by bit (-1 is all ones).
RECURSIVE BitAnd(_, _)
BitAnd(a, b) ==
    IF a = 0 \/ b = 0 THEN 0
    ELSE IF a = -1 THEN b
    ELSE IF b = -1 THEN a
    ELSE (IF a % 2 = 1 /\ b % 2 = 1 THEN 1 ELSE 0) + 2 * BitAnd(a \div 2, b \div 2)

\* a | b on two's complement integers, bit by bit.
RECURSIVE BitOr(_, _)
BitOr(a, b) ==
    IF a = 0 THEN b
    ELSE IF b = 0 THEN a
    ELSE IF a = -1 \/ b = -1 THEN -1
    ELSE (IF a % 2 = 1 \/ b % 2 = 1 THEN 1 ELSE 0) + 2 * BitOr(a \div 2, b \div 2)

RECURSIVE Pow2(_)
Pow2(n) == IF n = 0 THEN 1 ELSE 2 * Pow2(n - 1)

\* x >> n on an int: the arithmetic shift, rounding towards minus infinity.
ShiftRight(x, n) == x \div Pow2(n)

\* x << n
ShiftLeft(x, n) == x * Pow2(n)

(***************************************************************************)
(* Status bytes (MidiConstants.h).                                         *)
(***************************************************************************)
MIDI_NOTE_OFF == 128
MIDI_NOTE_ON == 144
MIDI_POLY_AFTERTOUCH == 160
MIDI_CONTROL_CHANGE == 176
MIDI_PROGRAM_CHANGE == 192
MIDI_AFTERTOUCH == 208
MIDI_PITCH_BEND == 224

(***************************************************************************)
(* Output::sendMessage, in its parts.                                      *)
(***************************************************************************)
\* assert(mBytes.size() == 3), the first statement of both overloads.
sendMessageAssertHolds(bytes) == Len(bytes) = 3

\* std::vector<unsigned char>::resize: cut, or filled with zero bytes.
Resize(bytes, n) == [i \in 1..n |-> IF i <= Len(bytes) THEN bytes[i] ELSE 0]

\* mBytes when sendMessage(status, byteOne, byteTwo) hands it to the provider.
sendMessage3Bytes(bytes, status, byteOne, byteTwo) ==
    [bytes EXCEPT ![1] = ToByte(status), ![2] = ToByte(byteOne), ![3] = ToByte(byteTwo)]

\* mBytes when sendMessage(status, byteOne, byteTwo) returns.
sendMessage3After(bytes) == bytes

\* A two byte send that writes into the three byte buffer without resize(2).
sendMessage2Bytes_NoResize(bytes, status, byteOne) ==
    [bytes EXCEPT ![1] = ToByte(status), ![2] = ToByte(byteOne)]

\* mBytes when sendMessage(status, byteOne) hands it to the provider.
sendMessage2Bytes(bytes, status, byteOne) ==
    [Resize(bytes, 2) EXCEPT ![1] = ToByte(status), ![2] = ToByte(byteOne)]

\* A two byte send that leaves the buffer at two bytes.
sendMessage2After_NoRestore(bytes) == bytes

\* mBytes when sendMessage(status, byteOne) returns: resize(3).
sendMessage2After(bytes) == Resize(bytes, 3)

\* A send that hands the message to the provider twice.
sendMessageCalls_Twice(bytes) ==
    <<RtCall("sendMessage", -1, "", bytes), RtCall("sendMessage", -1, "", bytes)>>

\* sendMessage(std::vector<unsigned char>&): the provider call.
sendMessageCalls(bytes) == <<RtCall("sendMessage", -1, "", bytes)>>

\* The status byte argument of the channel-addressed operations.
ChannelStatus(base, channel) == base + channel - 1

\* A range check that tests one bit too high.
sendPitchBendOutOfRange_ShiftsFifteen(value) == ShiftRight(value, 15) # 0

\* sendPitchBend(int, int): the range check, value >> 14 != 0.
sendPitchBendOutOfRange(value) == ShiftRight(value, 14) # 0

\* sendPitchBend(int, int): the line written for a value out of range.
sendPitchBendLog(value) ==
    IF sendPitchBendOutOfRange(value)
    THEN <<Event("ERROR Pitch bend values must be less than", ShiftLeft(1, 14), "")>>
    ELSE <<>>

\* sendPitchBend(int, int): value & 0x7F
sendPitchBendLsb(value) == BitAnd(value, 127)

\* A split that takes the high byte at bit 8 instead of bit 7.
sendPitchBendMsb_ShiftsEight(value) == BitAnd(ShiftRight(value, 8), 127)

\* sendPitchBend(int, int): (value >> 7) & 0x7F
sendPitchBendMsb(value) == BitAnd(ShiftRight(value, 7), 127)

\* A pitch bend addressed to its channel, like the other operations.
sendPitchBendStatus_WithChannel(channel) == ChannelStatus(MIDI_PITCH_BEND, channel)

\* sendPitchBend(int, unsigned char, unsigned char): the status byte argument.
sendPitchBendStatus(channel) == MIDI_PITCH_BEND

\* A three byte send of object o, for operation op called with (ch, d1, d2).
Send3(o, op, ch, d1, d2, out, status, byteOne, byteTwo) ==
    /\ Callable(o)
    /\ IF ~sendMessageAssertHolds(mBytes[o])
       THEN Abort(o, op, "sendMessage")
       ELSE LET buf == sendMessage3Bytes(mBytes[o], status, byteOne, byteTwo)
            IN /\ mBytes' = [mBytes EXCEPT ![o] = sendMessage3After(buf)]
               /\ last' = OpRecord(o, op, -1, "", ch, d1, d2, TRUE, out,
                                   sendMessageCalls(buf))
               /\ rt' = [rt EXCEPT ![o] = RtApplyAll(@, sendMessageCalls(buf))]
               /\ wire' = RtDeliver(wire, o, sendMessageCalls(buf))
               /\ UNCHANGED <<mPortNumber, mPortName, mIsVirtual, sVerboseLogging,
                              alive, aborted, race>>

\* A two byte send of object o, for operation op called with (ch, d1).
Send2(o, op, ch, d1, status, byteOne) ==
    /\ Callable(o)
    /\ IF ~sendMessageAssertHolds(mBytes[o])
       THEN Abort(o, op, "sendMessage")
       ELSE LET buf == sendMessage2Bytes(mBytes[o], status, byteOne)
            IN /\ mBytes' = [mBytes EXCEPT ![o] = sendMessage2After(buf)]
               /\ last' = OpRecord(o, op, -1, "", ch, d1, 0, TRUE, <<>>,
                                   sendMessageCalls(buf))
               /\ rt' = [rt EXCEPT ![o] = RtApplyAll(@, sendMessageCalls(buf))]
               /\ wire' = RtDeliver(wire, o, sendMessageCalls(buf))
               /\ UNCHANGED <<mPortNumber, mPortName, mIsVirtual, sVerboseLogging,
                              alive, aborted, race>>

\* void Output::sendNoteOn(int channel, int pitch, int velocity)
sendNoteOn(o, channel, pitch, velocity) ==
    Send3(o, "sendNoteOn", channel, pitch, velocity, <<>>,
          ChannelStatus(MIDI_NOTE_ON, channel), pitch, velocity)

\* void Output::sendNoteOff(int channel, int pitch, int velocity)
sendNoteOff(o, channel, pitch, velocity) ==
    Send3(o, "sendNoteOff", channel, pitch, velocity, <<>>,
          ChannelStatus(MIDI_NOTE_OFF, channel), pitch, velocity)

\* void Output::sendControlChange(int channel, int control, int value)
sendControlChange(o, channel, control, value) ==
    Send3(o, "sendControlChange", channel, control, value, <<>>,
          ChannelStatus(MIDI_CONTROL_CHANGE, channel), control, value)

\* void Output::sendProgramChange(int channel, int value)
sendProgramChange(o, channel, value) ==
    Send2(o, "sendProgramChange", channel, value,
          ChannelStatus(MIDI_PROGRAM_CHANGE, channel), value)

\* void Output::sendPitchBend(int channel, unsigned char lsb, unsigned char msb)
sendPitchBendBytes(o, channel, lsb, msb) ==
    Send3(o, "sendPitchBendBytes", channel, lsb, msb, <<>>,
          sendPitchBendStatus(channel), ToByte(lsb), ToByte(msb))

\* void Output::sendPitchBend(int channel, int value)
sendPitchBend(o, channel, value) ==
    Send3(o, "sendPitchBend", channel, value, 0, sendPitchBendLog(value),
          sendPitchBendStatus(channel),
          ToByte(sendPitchBendLsb(value)), ToByte(sendPitchBendMsb(value)))

\* void Output::sendAftertouch(int channel, int value)
sendAftertouch(o, channel, value) ==
    Send2(o, "sendAftertouch", channel, value,
          ChannelStatus(MIDI_AFTERTOUCH, channel), value)

\* void Output::sendPolyAftertouch(int channel, int pitch, int value)
sendPolyAftertouch(o, channel, pitch, value) ==
    Send3(o, "sendPolyAftertouch", channel, pitch, value, <<>>,
          ChannelStatus(MIDI_POLY_AFTERTOUCH, channel), pitch, value)

(***************************************************************************)
(* The arguments callers pass to the send operations.                      *)
(***************************************************************************)
\* The ranges the source documents: channel 1 - 16, data 0 - 127, bend 0 - 16383.
Channels == 1..16
Data == 0..127
MaxBendValue == 16383

\* With the life cycle: a few calls of each kind.
LifeChannels == {1, 16}
LifePitch == {60}
LifeValue == {100}
LifeBend == {8192}

\* For the encoding: every channel with data at the edges of the ranges and
\* beyond them, and the first and last channel with every data value.
EncChannels == Channels \cup {-255, -1, 0, 17, 113, 257}
EdgeChannels == {1, 16}
EdgeData == {-1, 0, 64, 127, 128, 256}
EdgeBend == {-1, 0, 127, 128, 8192, MaxBendValue, MaxBendValue + 1,
             MaxBendValue + 2, 32767, 65536}

EncArgs3 ==
    (EncChannels \X EdgeData \X EdgeData)
        \cup (EdgeChannels \X Data \X EdgeData)
        \cup (EdgeChannels \X EdgeData \X Data)

EncArgs2 == (EncChannels \X EdgeData) \cup (EdgeChannels \X Data)

EncBendArgs == (EncChannels \X EdgeBend) \cup (EdgeChannels \X (0..MaxBendValue))

Next ==
    \/ \E o \in Main, n \in PortArgs, ok \in BOOLEAN : openPort(o, n, ok)
    \/ \E o \in Main, s \in VirtualNames, ok \in BOOLEAN : openVirtualPort(o, s, ok)
    \/ \E o \in Main : closePort(o)
    \/ \E o \in Main : dtorOutput(o)
    \/ \E b \in BOOLEAN : setVerboseLogging(b)
    \/ \E o \in Main, c \in LifeChannels, p \in LifePitch, v \in LifeValue :
           sendNoteOn(o, c, p, v)
    \/ \E o \in Main, c \in LifeChannels, p \in LifePitch, v \in LifeValue :
           sendNoteOff(o, c, p, v)
    \/ \E o \in Main, c \in LifeChannels, p \in LifePitch, v \in LifeValue :
           sendControlChange(o, c, p, v)
    \/ \E o \in Main, c \in LifeChannels, v \in LifeValue :
           sendProgramChange(o, c, v)
    \/ \E o \in Main, c \in LifeChannels, v \in LifeBend :
           sendPitchBend(o, c, v)
    \/ \E o \in Main, c \in LifeChannels, p \in LifePitch, v \in LifeValue :
           sendPitchBendBytes(o, c, p, v)
    \/ \E o \in Main, c \in LifeChannels, v \in LifeValue :
           sendAftertouch(o, c, v)
    \/ \E o \in Main, c \in LifeChannels, p \in LifePitch, v \in LifeValue :
           sendPolyAftertouch(o, c, p, v)

Spec == Init /\ [][Next]_vars

(***************************************************************************)
(* Two Output objects and the one static switch: the life cycle of both.   *)
(***************************************************************************)
NextShared ==
    \/ \E o \in Outputs, n \in PortArgs, ok \in BOOLEAN : openPort(o, n, ok)
    \/ \E o \in Outputs, s \in VirtualNames, ok \in BOOLEAN : openVirtualPort(o, s, ok)
    \/ \E o \in Outputs : closePort(o)
    \/ \E o \in Outputs : dtorOutput(o)
    \/ \E b \in BOOLEAN : setVerboseLogging(b)

SpecShared == Init /\ [][NextShared]_vars

(***************************************************************************)
(* Sends in every state of the connection, with the messages the provider  *)
(* was handed recorded, up to MaxSent of them.                             *)
(***************************************************************************)
MaxSent == 2

SendCount(o) == Len(wire.msgs[o])

\* The channel of the calls whose messages are followed to the provider.
SendChannels == {2}

NextSend ==
    \/ \E o \in Main, n \in PortArgs, ok \in BOOLEAN : openPort(o, n, ok)
    \/ \E o \in Main, s \in VirtualNames, ok \in BOOLEAN : openVirtualPort(o, s, ok)
    \/ \E o \in Main : closePort(o)
    \/ \E o \in Main, c \in SendChannels, p \in LifePitch, v \in LifeValue :
           SendCount(o) < MaxSent /\ sendNoteOn(o, c, p, v)
    \/ \E o \in Main, c \in SendChannels, p \in LifePitch, v \in LifeValue :
           SendCount(o) < MaxSent /\ sendNoteOff(o, c, p, v)
    \/ \E o \in Main, c \in SendChannels, p \in LifePitch, v \in LifeValue :
           SendCount(o) < MaxSent /\ sendControlChange(o, c, p, v)
    \/ \E o \in Main, c \in SendChannels, v \in LifeValue :
           SendCount(o) < MaxSent /\ sendProgramChange(o, c, v)
    \/ \E o \in Main, c \in SendChannels, v \in LifeBend :
           SendCount(o) < MaxSent /\ sendPitchBend(o, c, v)
    \/ \E o \in Main, c \in SendChannels, p \in LifePitch, v \in LifeValue :
           SendCount(o) < MaxSent /\ sendPitchBendBytes(o, c, p, v)
    \/ \E o \in Main, c \in SendChannels, v \in LifeValue :
           SendCount(o) < MaxSent /\ sendAftertouch(o, c, v)
    \/ \E o \in Main, c \in SendChannels, p \in LifePitch, v \in LifeValue :
           SendCount(o) < MaxSent /\ sendPolyAftertouch(o, c, p, v)

SpecSend == InitSend /\ [][NextSend]_vars

(***************************************************************************)
(* The encoding alone: one send operation, with arguments over the whole   *)
(* documented ranges, on a new Output or right after a two byte message.   *)
(***************************************************************************)
EncStart ==
    \/ last.op = "Output"
    \/ last.op = "sendProgramChange" /\ last.ch = 1 /\ last.d1 = 127

NextEnc ==
    \/ EncStart /\ \E o \in Main, a \in EncArgs3 : sendNoteOn(o, a[1], a[2], a[3])
    \/ EncStart /\ \E o \in Main, a \in EncArgs3 : sendNoteOff(o, a[1], a[2], a[3])
    \/ EncStart /\ \E o \in Main, a \in EncArgs3 : sendControlChange(o, a[1], a[2], a[3])
    \/ EncStart /\ \E o \in Main, a \in EncArgs2 : sendProgramChange(o, a[1], a[2])
    \/ EncStart /\ \E o \in Main, a \in EncBendArgs : sendPitchBend(o, a[1], a[2])
    \/ EncStart /\ \E o \in Main, a \in EncArgs3 : sendPitchBendBytes(o, a[1], a[2], a[3])
    \/ EncStart /\ \E o \in Main, a \in EncArgs2 : sendAftertouch(o, a[1], a[2])
    \/ EncStart /\ \E o \in Main, a \in EncArgs3 : sendPolyAftertouch(o, a[1], a[2], a[3])

SpecEnc == Init /\ [][NextEnc]_vars

(***************************************************************************)
(* The connection life cycle: properties.                                  *)
(***************************************************************************)
closedFields == [port |-> -1, name |-> "", virt |-> FALSE]

IsOpenOp == last.op \in {"openPort", "openVirtualPort"}

\* The provider calls of the last operation close before they open.
ClosesBeforeOpening(calls) ==
    \A j \in 1..Len(calls) :
        calls[j].fn \in {"openPort", "openVirtualPort"} =>
            /\ \E i \in 1..(j - 1) : calls[i].fn = "closePort"
            /\ \A i \in 1..(j - 1) : calls[i].fn \notin {"openPort", "openVirtualPort"}

\* C1: in every reachable state a virtual connection has port number -1, so the
\* assert of closePort's virtual branch holds whatever sVerboseLogging is, and
\* no run has stopped on it.
C1_VirtualHasNoPortNumber ==
    /\ \A o \in Outputs : mIsVirtual[o] => mPortNumber[o] = -1
    /\ \A o \in Outputs, verbose \in BOOLEAN : closePortAssertHolds(Fields(o), verbose)
    /\ aborted # "closePort"

\* C1 witness: closePort ran its virtual branch (verbose logging on) on a
\* virtual port that had replaced a real one.
C1_Witness ==
    /\ last.op = "closePort"
    /\ last.pre.virt
    /\ last.out = <<Event("closed virtual port", -1, last.pre.name)>>

\* C2: the provider never holds two ports for one connection; an open on a
\* connection that is open closes at the provider before it opens; and after
\* an accepted open the accessors and the provider show the new target only.
C2_OnePortAtATime ==
    /\ \A o \in Outputs : Cardinality(rt[o]) <= 1
    /\ (IsOpenOp /\ aborted = "") =>
          /\ ClosesBeforeOpening(last.calls)
          /\ last.calls[1].fn = "closePort"
          /\ last.calls[Len(last.calls)].fn = last.op
    /\ (last.op = "openPort" /\ last.ret) =>
          /\ isOpen(last.self) /\ getPort(last.self) = last.port
          /\ ~isVirtual(last.self)
          /\ rt[last.self] = {RtRealPort(last.port)}
    /\ (last.op = "openVirtualPort" /\ last.ret) =>
          /\ isOpen(last.self) /\ getPort(last.self) = -1
          /\ isVirtual(last.self)
          /\ rt[last.self] = {RtVirtualPort(last.name)}

\* C2 witness: openPort was accepted on a connection open on another index.
C2_Witness ==
    /\ last.op = "openPort" /\ last.ret
    /\ last.pre.port > -1 /\ last.pre.port # last.port
    /\ last.preRt = {RtRealPort(last.pre.port)}

\* C3: an open the provider rejects returns false, stops on no fatal error and
\* leaves the connection closed, whatever it was before; the retry that
\* follows starts from the closed state.
C3_FailedOpenLeavesClosed ==
    /\ (IsOpenOp /\ ~last.ret) =>
          /\ aborted = ""
          /\ Fields(last.self) = closedFields
          /\ ~isOpen(last.self)
    /\ (IsOpenOp /\ last.retry # "no") => last.pre = closedFields

\* C3 witness: an open failed while a port was open, and the open retried
\* right after it succeeded.
C3_Witness ==
    /\ IsOpenOp /\ last.ret
    /\ last.retry = "after failed reopen"
    /\ isOpen(last.self)

\* C4: an accepted openPort(index) returns true and leaves getPort() = index,
\* getName() = the provider's name of that port, isVirtual() false and
\* isOpen() true, from every prior state.
C4_OpenPortRecordsTarget ==
    (last.op = "openPort" /\ last.ret) =>
        /\ getPort(last.self) = last.port
        /\ getName(last.self) = RtGetPortName(last.port)
        /\ getName(last.self) # ""
        /\ ~isVirtual(last.self)
        /\ isOpen(last.self)

\* C4 witness: openPort was accepted on a connection that held a virtual port.
C4_Witness ==
    /\ last.op = "openPort" /\ last.ret
    /\ last.pre.virt

\* C5: an accepted openVirtualPort(name) returns true and leaves isVirtual()
\* true, getPort() = -1, getName() = name and isOpen() true, from every prior
\* state; a real port that was open is closed at the provider.
C5_OpenVirtualRecordsTarget ==
    (last.op = "openVirtualPort" /\ last.ret) =>
        /\ isVirtual(last.self)
        /\ getPort(last.self) = -1
        /\ getName(last.self) = last.name
        /\ isOpen(last.self)
        /\ \A q \in rt[last.self] : q.kind = "virtual"

\* C5 witness: openVirtualPort was accepted on a connection that held a real port.
C5_Witness ==
    /\ last.op = "openVirtualPort" /\ last.ret
    /\ last.pre.port > -1
    /\ last.preRt # {}

\* C6: closePort in any state releases the provider's port and leaves
\* mPortNumber = -1, mPortName = "", mIsVirtual = false, isOpen() = false.
C6_CloseReleasesAndResets ==
    (last.op = "closePort") =>
        /\ aborted = ""
        /\ Fields(last.self) = closedFields
        /\ ~isOpen(last.self)
        /\ rt[last.self] = {}
        /\ \E i \in 1..Len(last.calls) : last.calls[i].fn = "closePort"

\* C6 witness: closePort ran on a connection whose provider port was open.
C6_Witness ==
    /\ last.op = "closePort"
    /\ last.preRt # {}
    /\ last.pre.port > -1

\* C7: closePort on a closed connection does not fail and changes no field of
\* the object, nor the provider's ports.
C7_CloseIdempotent ==
    [][\A o \in Outputs :
          (closePort(o) /\ ~isOpen(o)) =>
              /\ aborted' = ""
              /\ UNCHANGED <<mPortNumber, mPortName, mIsVirtual, mBytes,
                             sVerboseLogging, rt, alive>>
              /\ ~isOpen(o)']_vars

\* C7 witness: closePort ran on a connection that was closed.
C7_Witness ==
    /\ last.op = "closePort"
    /\ last.pre = closedFields
    /\ last.preRt = {}
    /\ aborted = ""

\* C8: a destroyed Output has no port open at the provider: the destructor
\* closes first, from every state.
C8_DestroyedIsReleased ==
    /\ \A o \in Outputs : ~alive[o] => rt[o] = {}
    /\ (last.op = "~Output") =>
          /\ aborted = ""
          /\ ~alive[last.self]
          /\ \E i \in 1..Len(last.calls) : last.calls[i].fn = "closePort"

\* C8 witness: an Output was destroyed while its provider port was open.
C8_Witness ==
    /\ last.op = "~Output"
    /\ ~alive[last.self]
    /\ last.preRt # {}

(***************************************************************************)
(* The encoding: properties.                                               *)
(***************************************************************************)
IsSendOp ==
    last.op \in {"sendNoteOn", "sendNoteOff", "sendControlChange", "sendProgramChange",
                 "sendPitchBend", "sendPitchBendBytes", "sendAftertouch",
                 "sendPolyAftertouch"}

\* The last operation handed the provider exactly one message, these bytes.
SentExactly(bytes) == last.calls = <<RtCall("sendMessage", -1, "", bytes)>>

\* The bytes of the message the last send operation handed to the provider.
SentBytes == last.calls[1].bytes

InRange3 == last.ch \in Channels /\ last.d1 \in Data /\ last.d2 \in Data
InRange2 == last.ch \in Channels /\ last.d1 \in Data

\* C9: for channel in 1..16 and data in 0..127 the provider is handed exactly
\* [base + channel - 1, d1, d2] by sendNoteOn, sendNoteOff, sendControlChange
\* and sendPolyAftertouch, exactly [base + channel - 1, value] by
\* sendProgramChange and sendAftertouch, and three bytes by the byte-pair
\* sendPitchBend.
C9_ChannelVoiceEncoding ==
    /\ (last.op = "sendNoteOn" /\ InRange3) =>
          SentExactly(<<MIDI_NOTE_ON + last.ch - 1, last.d1, last.d2>>)
    /\ (last.op = "sendNoteOff" /\ InRange3) =>
          SentExactly(<<MIDI_NOTE_OFF + last.ch - 1, last.d1, last.d2>>)
    /\ (last.op = "sendControlChange" /\ InRange3) =>
          SentExactly(<<MIDI_CONTROL_CHANGE + last.ch - 1, last.d1, last.d2>>)
    /\ (last.op = "sendPolyAftertouch" /\ InRange3) =>
          SentExactly(<<MIDI_POLY_AFTERTOUCH + last.ch - 1, last.d1, last.d2>>)
    /\ (last.op = "sendProgramChange" /\ InRange2) =>
          SentExactly(<<MIDI_PROGRAM_CHANGE + last.ch - 1, last.d1>>)
    /\ (last.op = "sendAftertouch" /\ InRange2) =>
          SentExactly(<<MIDI_AFTERTOUCH + last.ch - 1, last.d1>>)
    /\ (last.op = "sendPitchBendBytes" /\ InRange3) =>
          /\ Len(last.calls) = 1
          /\ Len(SentBytes) = 3
          /\ SentBytes[2] = last.d1 /\ SentBytes[3] = last.d2

\* C9 witness: sendProgramChange(16, 127) handed the provider the two bytes
\* [0xCF, 127].
C9_Witness ==
    /\ last.op = "sendProgramChange" /\ last.ch = 16 /\ last.d1 = 127
    /\ SentBytes = <<207, 127>>

\* C10: for value in 0..16383 sendPitchBend(channel, value) hands the provider
\* data bytes lsb = value & 0x7F and msb = (value >> 7) & 0x7F, both in
\* 0..127, with lsb | (msb << 7) = value.
C10_PitchBendRoundTrip ==
    (last.op = "sendPitchBend" /\ last.d1 \in 0..MaxBendValue) =>
        /\ Len(last.calls) = 1
        /\ Len(SentBytes) = 3
        /\ LET lsb == SentBytes[2]
               msb == SentBytes[3]
           IN /\ lsb = BitAnd(last.d1, 127)
              /\ lsb = last.d1 % 128
              /\ msb = BitAnd(ShiftRight(last.d1, 7), 127)
              /\ msb = (last.d1 \div 128) % 128
              /\ lsb \in 0..127 /\ msb \in 0..127
              /\ BitOr(lsb, ShiftLeft(msb, 7)) = last.d1
              /\ lsb + 128 * msb = last.d1

\* C10 witness: sendPitchBend of the largest value, 16383, sent lsb = msb = 127.
C10_Witness ==
    /\ last.op = "sendPitchBend" /\ last.d1 = MaxBendValue
    /\ SentBytes[2] = 127 /\ SentBytes[3] = 127

\* C11: sendPitchBend(channel, value) with value >= 16384 writes the
\* diagnostic and still hands the provider exactly one message, with
\* lsb = value & 0x7F and msb = (value >> 7) & 0x7F; it does not stop and it
\* leaves the connection as it was.
C11_PitchBendOutOfRangeStillSent ==
    (last.op = "sendPitchBend" /\ last.d1 > MaxBendValue) =>
        /\ last.out = <<Event("ERROR Pitch bend values must be less than",
                              MaxBendValue + 1, "")>>
        /\ SentExactly(<<MIDI_PITCH_BEND, last.d1 % 128, (last.d1 \div 128) % 128>>)
        /\ SentBytes[2] = BitAnd(last.d1, 127)
        /\ SentBytes[3] = BitAnd(ShiftRight(last.d1, 7), 127)
        /\ aborted = ""
        /\ Fields(last.self) = last.pre
        /\ rt[last.self] = last.preRt

\* C11 witness: sendPitchBend(1, 16384), the first value out of range, wrote
\* the diagnostic and sent the masked value, lsb = 0 and msb = 0.
C11_Witness ==
    /\ last.op = "sendPitchBend" /\ last.ch = 1 /\ last.d1 = MaxBendValue + 1
    /\ last.out # <<>>
    /\ SentBytes = <<MIDI_PITCH_BEND, 0, 0>>

\* The status byte base of each channel-voice operation.
StatusBase(op) ==
    CASE op = "sendNoteOn"         -> MIDI_NOTE_ON
      [] op = "sendNoteOff"        -> MIDI_NOTE_OFF
      [] op = "sendControlChange"  -> MIDI_CONTROL_CHANGE
      [] op = "sendProgramChange"  -> MIDI_PROGRAM_CHANGE
      [] op = "sendAftertouch"     -> MIDI_AFTERTOUCH
      [] op = "sendPolyAftertouch" -> MIDI_POLY_AFTERTOUCH
      [] OTHER                     -> MIDI_PITCH_BEND

\* The operations whose status byte is base + channel - 1.
IsChannelOffsetOp ==
    last.op \in {"sendNoteOn", "sendNoteOff", "sendControlChange", "sendProgramChange",
                 "sendAftertouch", "sendPolyAftertouch"}

\* C12: for channel in 1..16 the status byte of every semantic send, both
\* forms of sendPitchBend included, has the message type in its upper nibble
\* and channel - 1 in its lower nibble.  The pitch bends break it.
C12_StatusCarriesChannel ==
    (IsSendOp /\ last.ch \in Channels) =>
        /\ SentBytes[1] \div 16 = StatusBase(last.op) \div 16
        /\ SentBytes[1] % 16 = last.ch - 1

\* C13: the byte-pair sendPitchBend hands the provider [MIDI_PITCH_BEND, lsb,
\* msb] whatever the channel is, and so does the 14 bit form that forwards to it.
C13_PitchBendIgnoresChannel ==
    /\ (last.op = "sendPitchBendBytes" /\ last.d1 \in 0..255 /\ last.d2 \in 0..255) =>
          SentExactly(<<MIDI_PITCH_BEND, last.d1, last.d2>>)
    /\ (last.op \in {"sendPitchBendBytes", "sendPitchBend"}) =>
          /\ Len(last.calls) = 1
          /\ Len(SentBytes) = 3
          /\ SentBytes[1] = MIDI_PITCH_BEND

\* C13 witness: the byte-pair sendPitchBend on channel 16 sent status 0xE0.
C13_Witness ==
    /\ last.op = "sendPitchBendBytes" /\ last.ch = 16
    /\ last.d1 = 64 /\ last.d2 = 127
    /\ SentBytes = <<224, 64, 127>>

\* C14 as stated: for every channel outside 1..16 a channel-offset send still
\* hands the provider one message, and its status byte lies outside
\* base..base+15.
C14_OutOfRangeChannelOutOfRangeStatus ==
    (IsChannelOffsetOp /\ last.ch \notin Channels) =>
        /\ Len(last.calls) = 1
        /\ aborted = ""
        /\ SentBytes[1] \notin StatusBase(last.op)..(StatusBase(last.op) + 15)

\* C14 amended: for every channel outside 1..16 a channel-offset send still
\* hands the provider one message, with status byte (base + channel - 1) mod
\* 256; the byte lies outside base..base+15 unless (channel - 1) mod 256 is in
\* 0..15 (channel 257, -255, ...), where it wraps back into the range.
C14_OutOfRangeChannelWraps ==
    (IsChannelOffsetOp /\ last.ch \notin Channels) =>
        /\ Len(last.calls) = 1
        /\ aborted = ""
        /\ SentBytes[1] = (StatusBase(last.op) + last.ch - 1) % 256
        /\ SentBytes[1] \in 0..255
        /\ (SentBytes[1] \in StatusBase(last.op)..(StatusBase(last.op) + 15))
              <=> ((last.ch - 1) % 256 \in 0..15)

\* C14 witness: sendNoteOn on channel 257 sent status 0x90, the status of
\* channel 1.
C14_Witness ==
    /\ last.op = "sendNoteOn" /\ last.ch = 257
    /\ SentBytes[1] = MIDI_NOTE_ON

(***************************************************************************)
(* Logging, and the provider handle: properties.                           *)
(***************************************************************************)
\* The line closePort writes for a connection that was open with fields f.
ClosedLine(f) ==
    IF f.virt THEN Event("closed virtual port", -1, f.name)
    ELSE Event("closed port", f.port, f.name)

\* The lines of the close that every open, close and destructor starts with.
ExpectedCloseLines ==
    IF sVerboseLogging /\ isOpenF(last.pre) THEN <<ClosedLine(last.pre)>> ELSE <<>>

\* C15: the switch is off after construction; with it on, every object writes
\* one line for each accepted open (after the line of the close it implies)
\* and one for each close of an open connection; with it off, none of these;
\* the line of a rejected open is written either way.
C15_VerboseSwitchShared ==
    /\ (last.op = "Output") => ~sVerboseLogging
    /\ (last.op = "openPort" /\ aborted = "") =>
          last.out = ExpectedCloseLines \o
              (IF ~last.ret
               THEN <<Event("ERROR couldn't open port", last.port, "")>>
               ELSE IF sVerboseLogging
                    THEN <<Event("opened port", last.port, getName(last.self))>>
                    ELSE <<>>)
    /\ (last.op = "openVirtualPort" /\ aborted = "") =>
          last.out = ExpectedCloseLines \o
              (IF ~last.ret
               THEN <<Event("ERROR couldn't open virtual port", -1, last.name)>>
               ELSE IF sVerboseLogging
                    THEN <<Event("opened virtual port", -1, last.name)>>
                    ELSE <<>>)
    /\ (last.op \in {"closePort", "~Output"} /\ aborted = "") =>
          last.out = ExpectedCloseLines
    /\ (last.op \in {"openPort", "openVirtualPort", "closePort", "~Output"}
          /\ ~sVerboseLogging /\ last.ret) => last.out = <<>>

\* C15 witness: with the switch on, the second object reopened: it wrote the
\* line of the close and then the line of the open, while the first object
\* was open too.
C15_Witness ==
    /\ sVerboseLogging
    /\ last.self = "b" /\ last.op = "openPort" /\ last.ret
    /\ Len(last.out) = 2
    /\ last.out[1].ev = "closed virtual port" /\ last.out[2].ev = "opened port"
    /\ isOpen("a")

\* C18: for every object, isOpen() holds exactly when the provider holds a
\* port for its handle, isVirtual() exactly when that port is a virtual one,
\* and getPort() >= 0 exactly when it is the real port of that number.
C18_StateAgreesWithProvider ==
    \A o \in Outputs :
        /\ Cardinality(rt[o]) <= 1
        /\ isOpen(o) <=> rt[o] # {}
        /\ isVirtual(o) <=> (\E q \in rt[o] : q.kind = "virtual")
        /\ isVirtual(o) => rt[o] = {RtVirtualPort(getName(o))}
        /\ (getPort(o) >= 0) <=> (\E q \in rt[o] : q.kind = "real")
        /\ (getPort(o) >= 0) => rt[o] = {RtRealPort(getPort(o))}

\* C18 witness: an open was rejected on a connection that had a port open:
\* the object says closed and the provider holds nothing.
C18_Witness ==
    /\ IsOpenOp /\ ~last.ret /\ aborted = ""
    /\ last.preRt # {}
    /\ rt[last.self] = {} /\ ~isOpen(last.self)

(***************************************************************************)
(* Two threads sending on one object, statement by statement.  The object  *)
(* takes no lock, so the statements of two calls interleave freely.        *)
(***************************************************************************)
MaxCalls == 3

RaceNoteOnArgs == {<<1, 60, 100>>, <<2, 64, 90>>}

RaceProgramChangeArgs == {<<3, 5>>}

\* Thread t runs a statement while another thread is inside a call.
RaceOverlap(t) == \E u \in Threads \ {t} : race.thr[u].pc # "idle"

\* Thread t moves on to rec.
RaceMove(t, rec) ==
    race' = [race EXCEPT !.thr[t] = rec, !.overlapped = @ \/ RaceOverlap(t)]

RaceQuiet(o) ==
    UNCHANGED <<mPortNumber, mPortName, mIsVirtual, sVerboseLogging, rt, alive, last>>

\* Thread t enters sendMessage(status, byteOne, byteTwo) from operation op;
\* the arguments become unsigned char at the call.
raceCall3(o, t, op, status, byteOne, byteTwo) ==
    /\ Callable(o)
    /\ race.thr[t].pc = "idle"
    /\ race.begun < MaxCalls
    /\ race' = [race EXCEPT
                  !.thr[t] = [pc |-> "assert", op |-> op, n |-> 3,
                              status |-> ToByte(status), b1 |-> ToByte(byteOne),
                              b2 |-> ToByte(byteTwo)],
                  !.overlapped = @ \/ RaceOverlap(t),
                  !.calls = @ \cup {sendMessage3Bytes(ctorBytes, status, byteOne, byteTwo)},
                  !.begun = @ + 1]
    /\ RaceQuiet(o)
    /\ UNCHANGED <<mBytes, aborted, wire>>

\* Thread t enters sendMessage(status, byteOne) from operation op.
raceCall2(o, t, op, status, byteOne) ==
    /\ Callable(o)
    /\ race.thr[t].pc = "idle"
    /\ race.begun < MaxCalls
    /\ race' = [race EXCEPT
                  !.thr[t] = [pc |-> "assert", op |-> op, n |-> 2,
                              status |-> ToByte(status), b1 |-> ToByte(byteOne),
                              b2 |-> 0],
                  !.overlapped = @ \/ RaceOverlap(t),
                  !.calls = @ \cup {sendMessage2Bytes(ctorBytes, status, byteOne)},
                  !.begun = @ + 1]
    /\ RaceQuiet(o)
    /\ UNCHANGED <<mBytes, aborted, wire>>

\* sendNoteOn, up to the call of sendMessage.
raceSendNoteOn(o, t, channel, pitch, velocity) ==
    raceCall3(o, t, "sendNoteOn", ChannelStatus(MIDI_NOTE_ON, channel), pitch, velocity)

\* sendProgramChange, up to the call of sendMessage.
raceSendProgramChange(o, t, channel, value) ==
    raceCall2(o, t, "sendProgramChange", ChannelStatus(MIDI_PROGRAM_CHANGE, channel), value)

\* assert(mBytes.size() == 3)
raceAssert(o, t) ==
    /\ Callable(o)
    /\ race.thr[t].pc = "assert"
    /\ RaceQuiet(o)
    /\ UNCHANGED <<mBytes, wire>>
    /\ IF sendMessageAssertHolds(mBytes[o])
       THEN /\ RaceMove(t, [race.thr[t] EXCEPT
                              !.pc = IF race.thr[t].n = 2 THEN "resize2" ELSE "w0"])
            /\ UNCHANGED aborted
       ELSE /\ RaceMove(t, race.thr[t])
            /\ aborted' = "sendMessage"

\* mBytes.resize(2)
raceResize2(o, t) ==
    /\ Callable(o)
    /\ race.thr[t].pc = "resize2"
    /\ mBytes' = [mBytes EXCEPT ![o] = Resize(@, 2)]
    /\ RaceMove(t, [race.thr[t] EXCEPT !.pc = "w0"])
    /\ RaceQuiet(o)
    /\ UNCHANGED <<aborted, wire>>

\* The statement thread t is at when it writes element i of mBytes, the
\* value it writes, and the statement after it.
RaceWriteAt(r) ==
    CASE r.pc = "w0" -> [i |-> 1, v |-> r.status, next |-> "w1"]
      [] r.pc = "w1" -> [i |-> 2, v |-> r.b1, next |-> IF r.n = 2 THEN "send" ELSE "w2"]
      [] r.pc = "w2" -> [i |-> 3, v |-> r.b2, next |-> "send"]

\* mBytes[i] = value, with i inside the vector.
raceWrite(o, t) ==
    /\ Callable(o)
    /\ race.thr[t].pc \in {"w0", "w1", "w2"}
    /\ RaceWriteAt(race.thr[t]).i <= Len(mBytes[o])
    /\ mBytes' = [mBytes EXCEPT ![o][RaceWriteAt(race.thr[t]).i] = RaceWriteAt(race.thr[t]).v]
    /\ RaceMove(t, [race.thr[t] EXCEPT !.pc = RaceWriteAt(race.thr[t]).next])
    /\ RaceQuiet(o)
    /\ UNCHANGED <<aborted, wire>>

\* mBytes[i] = value, with i past the end after another thread's resize(2):
\* operator[] makes no check, so the byte lands in the spare capacity and the
\* vector keeps its two elements, or a hardened library ends the process.
raceWritePastEnd(o, t) ==
    /\ Callable(o)
    /\ race.thr[t].pc \in {"w0", "w1", "w2"}
    /\ RaceWriteAt(race.thr[t]).i > Len(mBytes[o])
    /\ RaceQuiet(o)
    /\ UNCHANGED <<mBytes, wire>>
    /\ \/ /\ RaceMove(t, [race.thr[t] EXCEPT !.pc = RaceWriteAt(race.thr[t]).next])
          /\ UNCHANGED aborted
       \/ /\ RaceMove(t, race.thr[t])
          /\ aborted' = "operator[]"

\* sendMessage(mBytes): the provider is handed the vector as it is now.
raceSend(o, t) ==
    /\ Callable(o)
    /\ race.thr[t].pc = "send"
    /\ wire' = RtDeliver(wire, o, sendMessageCalls(mBytes[o]))
    /\ RaceMove(t, IF race.thr[t].n = 2
                   THEN [race.thr[t] EXCEPT !.pc = "resize3"]
                   ELSE ThreadIdle)
    /\ RaceQuiet(o)
    /\ UNCHANGED <<mBytes, aborted>>

\* mBytes.resize(3), and the return.
raceResize3(o, t) ==
    /\ Callable(o)
    /\ race.thr[t].pc = "resize3"
    /\ mBytes' = [mBytes EXCEPT ![o] = sendMessage2After(@)]
    /\ RaceMove(t, ThreadIdle)
    /\ RaceQuiet(o)
    /\ UNCHANGED <<aborted, wire>>

NextRace ==
    \/ \E o \in Main, t \in Threads, a \in RaceNoteOnArgs :
          raceSendNoteOn(o, t, a[1], a[2], a[3])
    \/ \E o \in Main, t \in Threads, a \in RaceProgramChangeArgs :
          raceSendProgramChange(o, t, a[1], a[2])
    \/ \E o \in Main, t \in Threads : raceAssert(o, t)
    \/ \E o \in Main, t \in Threads : raceResize2(o, t)
    \/ \E o \in Main, t \in Threads : raceWrite(o, t)
    \/ \E o \in Main, t \in Threads : raceWritePastEnd(o, t)
    \/ \E o \in Main, t \in Threads : raceSend(o, t)
    \/ \E o \in Main, t \in Threads : raceResize3(o, t)

SpecRace == InitSend /\ [][NextRace]_vars

(***************************************************************************)
(* The send path: properties.                                              *)
(***************************************************************************)
Is2ByteOp(op) == op \in {"sendProgramChange", "sendAftertouch"}

\* The bytes of the call recorded in l, by the encoding table of the
\* operations, for arguments within their ranges.
CallBytes(l) ==
    CASE l.op = "sendPitchBend" ->
            <<MIDI_PITCH_BEND, l.d1 % 128, (l.d1 \div 128) % 128>>
      [] l.op = "sendPitchBendBytes" -> <<MIDI_PITCH_BEND, l.d1, l.d2>>
      [] Is2ByteOp(l.op) -> <<StatusBase(l.op) + l.ch - 1, l.d1>>
      [] OTHER -> <<StatusBase(l.op) + l.ch - 1, l.d1, l.d2>>

\* C16, of the state after a send: whatever the connection is (closed, real,
\* virtual) the operation made exactly one provider call, sendMessage with
\* the bytes of this call, now the last message the provider was handed, and
\* left mPortNumber, mPortName, mIsVirtual and the provider's ports alone.
C16_AfterSend ==
    IsSendOp =>
        /\ aborted = ""
        /\ SentExactly(CallBytes(last))
        /\ SendCount(last.self) >= 1
        /\ wire.msgs[last.self][SendCount(last.self)] = CallBytes(last)
        /\ Fields(last.self) = last.pre
        /\ rt[last.self] = last.preRt

\* C16, of every step: a send appends its message to what the provider was
\* handed before, which stays as it was and in its order; any other operation
\* hands the provider no message.
C16_SendStep ==
    \A o \in Outputs :
        \/ wire'.msgs[o] = wire.msgs[o] /\ ~(IsSendOp' /\ last'.self = o)
        \/ /\ IsSendOp' /\ last'.self = o
           /\ wire'.msgs[o] = Append(wire.msgs[o], CallBytes(last'))
           /\ UNCHANGED <<mPortNumber, mPortName, mIsVirtual, rt>>

\* C16: sends make no open check and do not touch the connection; each send
\* call is exactly one provider send with its bytes, and the provider is
\* handed the messages in the order of the calls, none dropped, doubled or
\* merged.
C16_SendsPassThroughInOrder == []C16_AfterSend /\ [][C16_SendStep]_vars

\* C16 witness: two different messages were sent on a connection that is
\* closed, and the provider was handed both, in that order.
C16_Witness ==
    /\ IsSendOp /\ ~isOpenF(last.pre) /\ last.preRt = {}
    /\ SendCount(last.self) = 2
    /\ wire.msgs[last.self][1] # wire.msgs[last.self][2]
    /\ wire.msgs[last.self][2] = CallBytes(last)

\* C17: between operations mBytes has three elements, so the assert at the
\* head of both sendMessage overloads never fails; a two byte send hands the
\* provider two bytes and returns with three, and a three byte send hands
\* over its own three bytes, after a two byte send too.
C17_ScratchBufferIsThree ==
    /\ \A o \in Outputs : Len(mBytes[o]) = 3
    /\ aborted # "sendMessage"
    /\ IsSendOp =>
          /\ last.preLen = 3
          /\ Len(last.calls) = 1
          /\ Len(SentBytes) = (IF Is2ByteOp(last.op) THEN 2 ELSE 3)
          /\ SentBytes = CallBytes(last)

\* C17 witness: a three byte message followed a two byte one and reached the
\* provider with its own third byte.
C17_Witness ==
    /\ last.op = "sendNoteOn"
    /\ SendCount(last.self) = 2
    /\ Len(wire.msgs[last.self][1]) = 2
    /\ wire.msgs[last.self][2] = <<MIDI_NOTE_ON + last.ch - 1, last.d1, last.d2>>
    /\ last.d2 # 0

\* Message i the provider was handed for o is the message of no send call.
RaceForeign(o, i) == wire.msgs[o][i] \notin race.calls

\* C19: the object takes no lock; as long as every send call of the two
\* threads ran from its first statement to its return with no statement of
\* another call in between, the assert of sendMessage has not failed and
\* every message the provider was handed is the message of one of the calls.
C19_AtomicSendsKeepIntegrity ==
    ~race.overlapped =>
        /\ aborted = ""
        /\ \A o \in Outputs : \A i \in 1..SendCount(o) : ~RaceForeign(o, i)
        /\ \A o \in Outputs :
              (\A t \in Threads : race.thr[t].pc = "idle") => Len(mBytes[o]) = 3

\* C19 witness: the calls of the two threads interleaved, the provider was
\* handed a message that is the message of none of the calls, and a later
\* call found mBytes at two elements and failed its assert.
C19_Witness ==
    /\ race.overlapped
    /\ aborted = "sendMessage"
    /\ \E o \in Outputs : \E i \in 1..SendCount(o) : RaceForeign(o, i)

====
